---- MODULE Spec2Model ----
(***************************************************************************)
(* Calling-convention boundary code generation and redundant-store         *)
(* elimination of rellume (callconv.cc): CallConv::FromFunction, FnType,   *)
(* FnCallConv, CpuStructParamIdx, the HHVM register mapping, Pack, Unpack, *)
(* Return, UnpackParams, Call and OptimizePacks.                           *)
(*                                                                         *)
(* The virtual register file (regfile.h), the basic block / CFG container  *)
(* (basicblock.h) and the CPU struct registry (cpustruct-private.inc) are  *)
(* collaborators whose code is not part of the sources; they are modelled  *)
(* from their documented interface.                                        *)
(***************************************************************************)
EXTENDS Integers, Sequences, FiniteSets, TLC

\* ------------------------------------------------------------------ bounds
\* The lifter's work on one function: the boundary operations (Return,
\* UnpackParams, Call) and the register writes of lifted instructions.
MaxOps == 2
MaxWrites == 1
\* The boundary operations under FairSpec, which follows the worklist loop of
\* OptimizePacks to its end.
MaxLoopOps == 1
\* The register writes under StraightSpec, which has straight-line functions.
MaxStraightWrites == 2
MaxEdges == 4
NumAddrSpaces == 2

Blocks == {1, 2, 3}
EntryBlock == 1

\* --------------------------------------------------- registers and facets
Reg(kind, index) == <<kind, index>>
IP == Reg("IP", 0)
GP(i) == Reg("GP", i)
NoReg == Reg("none", 0)
IsGP(reg) == reg[1] = "GP"
Index(reg) == reg[2]
Key(reg, facet) == <<reg, facet>>

\* The registry of (sptr_idx, reg, facet): the instruction pointer, the 16
\* general purpose registers, one flag and one vector register.
NumEntries == 19
cpu_struct_entries ==
    [i \in 1..NumEntries |->
        IF i = 1 THEN [sptr_idx |-> 0, reg |-> IP, facet |-> "I64"]
        ELSE IF i <= 17 THEN [sptr_idx |-> i - 1, reg |-> GP(i - 2), facet |-> "I64"]
        ELSE IF i = 18 THEN [sptr_idx |-> 17, reg |-> Reg("FLAG", 0), facet |-> "I1"]
        ELSE [sptr_idx |-> 18, reg |-> Reg("VEC", 0), facet |-> "I128"]]
Entries == 1..NumEntries
Slots == 0..(NumEntries - 1)
EntryKey(i) == Key(cpu_struct_entries[i].reg, cpu_struct_entries[i].facet)
\* The registry entries of a register/facet (none for a facet outside it).
EntriesOf(reg, facet) == {i \in Entries : EntryKey(i) = Key(reg, facet)}

\* Canonical bit of a register/facet in a RegisterSet: one bit per register.
RegisterSetBitIdx(reg, facet) ==
    IF reg[1] = "GP" THEN reg[2]
    ELSE IF reg[1] = "IP" THEN 16
    ELSE IF reg[1] = "FLAG" THEN 17 + reg[2]
    ELSE 18 + reg[2]
EntryBit(i) == RegisterSetBitIdx(cpu_struct_entries[i].reg, cpu_struct_entries[i].facet)

\* Register/facets the lifter writes in this model: a host-mapped register, a
\* register that is never host-mapped, and a facet that is not in the registry.
LiftKeys == {Key(GP(0), "I64"), Key(GP(12), "I64"), Key(GP(12), "I32")}

\* ------------------------------------------------- convention descriptor
Conventions == {"SPTR", "HHVM"}

Ty(t, as) == <<t, as>>
VoidTy == Ty("void", 0)
I64Ty == Ty("i64", 0)
I8PtrTy(as) == Ty("i8*", as)
I64PtrTy(as) == Ty("i64*", as)
Struct14Ty == Ty("{i64 x 14}", 0)
IsPointerTy(ty) == ty[1] \in {"i8*", "i64*"}
PointerAddressSpace(ty) == ty[2]
FunctionType(ret, params, vararg) == [ret |-> ret, params |-> params, vararg |-> vararg]
NullFnType == FunctionType(Ty("null", 0), <<>>, FALSE)

FnType(cc, sptr_addrspace) ==
    CASE cc = "SPTR" -> FunctionType(VoidTy, <<I8PtrTy(sptr_addrspace)>>, FALSE)
      [] cc = "HHVM" ->
            FunctionType(Struct14Ty,
                         <<I64Ty, I8PtrTy(sptr_addrspace)>> \o [i \in 1..12 |-> I64Ty],
                         FALSE)
      [] OTHER -> NullFnType

FnCallConv(cc) ==
    CASE cc = "SPTR" -> "C"
      [] cc = "HHVM" -> "HHVM"
      [] OTHER -> "C"

\* A faulty variant: the struct pointer is taken to be the first parameter of every convention.
CpuStructParamIdxFirst(cc) == 0

CpuStructParamIdx(cc) ==
    CASE cc = "SPTR" -> 0
      [] cc = "HHVM" -> 1
      [] OTHER -> 0

\* A faulty variant: the function type is not compared with the signature.
FromFunctionNoTypeCheck(f) ==
    LET hunch == IF f.cc = "HHVM" THEN "HHVM" ELSE "SPTR"
        sptr_idx == CpuStructParamIdx(hunch)
    IN  IF FnCallConv(hunch) # f.cc THEN "INVALID"
        ELSE IF sptr_idx >= Len(f.ty.params) THEN "INVALID"
        ELSE IF ~IsPointerTy(f.ty.params[sptr_idx + 1]) THEN "INVALID"
        ELSE hunch

\* f = [cc, ty]: an LLVM function handle, its calling convention and type.
FromFunction(f) ==
    LET hunch == IF f.cc = "HHVM" THEN "HHVM" ELSE "SPTR"
        sptr_idx == CpuStructParamIdx(hunch)
    IN  IF FnCallConv(hunch) # f.cc THEN "INVALID"
        ELSE IF sptr_idx >= Len(f.ty.params) THEN "INVALID"
        ELSE IF ~IsPointerTy(f.ty.params[sptr_idx + 1]) THEN "INVALID"
        ELSE IF f.ty # FnType(hunch, PointerAddressSpace(f.ty.params[sptr_idx + 1]))
             THEN "INVALID"
        ELSE hunch

\* -------------------------------------------------------- register mapper
hhvm_is_host_reg(reg) == reg = IP \/ (IsGP(reg) /\ Index(reg) < 12)

\* A faulty argument table that maps RSI and RDI to the same parameter.
hhvm_arg_indices_dup == <<10, 7, 6, 2, 3, 13, 5, 5, 8, 9, 11, 12>>

hhvm_arg_indices == <<10, 7, 6, 2, 3, 13, 5, 4, 8, 9, 11, 12>>
hhvm_arg_index(reg) ==
    IF IsGP(reg) /\ Index(reg) < 12 THEN hhvm_arg_indices[Index(reg) + 1] ELSE 0

\* A faulty return table that puts RSP in the placeholder field.
hhvm_ret_indices_placeholder == <<8, 5, 4, 1, 12, 11, 3, 2, 6, 7, 9, 10>>

hhvm_ret_indices == <<8, 5, 4, 1, 13, 11, 3, 2, 6, 7, 9, 10>>
hhvm_ret_index(reg) ==
    IF IsGP(reg) /\ Index(reg) < 12 THEN hhvm_ret_indices[Index(reg) + 1] ELSE 0

\* ------------------------------------------------- virtual register file
\* A register file holds the value of every registry entry (val, by entry),
\* the facets outside the registry that have a value (extra: <<key, value>>),
\* and the dirty and cleaned register sets.
Val(t, i) == <<t, i>>
NoVal == Val("none", 0)
NoVals == [i \in Entries |-> NoVal]
EmptyRegFile == [val |-> NoVals, extra |-> {}, dirty |-> {}, cleaned |-> {}]

\* RegFile::GetReg: the current value; a facet not yet in the file reads as
\* the block's incoming value.
GetReg(rf, reg, facet) ==
    LET E == EntriesOf(reg, facet)
        X == {x \in rf.extra : x[1] = Key(reg, facet)}
        v == IF E # {} THEN rf.val[CHOOSE i \in E : TRUE]
             ELSE IF X # {} THEN (CHOOSE x \in X : TRUE)[2] ELSE NoVal
    IN  IF v = NoVal THEN Val("phi", 0) ELSE v

\* RegFile::SetReg(reg, facet, value, markDirty)
SetReg(rf, reg, facet, value, markDirty) ==
    LET E == EntriesOf(reg, facet)
        set == IF E # {} THEN [rf EXCEPT !.val[CHOOSE i \in E : TRUE] = value]
               ELSE [rf EXCEPT !.extra = {x \in @ : x[1] # Key(reg, facet)}
                                         \cup {<<Key(reg, facet), value>>}]
    IN  [set EXCEPT !.dirty = IF markDirty THEN @ \cup {RegisterSetBitIdx(reg, facet)}
                              ELSE @]

\* RegFile::Clear: all facets removed.
Clear(rf) == [rf EXCEPT !.val = NoVals, !.extra = {}]

\* The register/facets that have a value in the file.
Facets(rf) == {EntryKey(i) : i \in {j \in Entries : rf.val[j] # NoVal}}
              \cup {x[1] : x \in rf.extra}

\* ---------------------------------------------------------- operands, IR
Opnd(t, reg) == <<t, reg[1], reg[2]>>
Null == Opnd("null", NoReg)
Undef == Opnd("undef", NoReg)
SptrRaw == Opnd("sptr_raw", NoReg)
RegVal(reg) == Opnd("regval", reg)
CallResult == Opnd("call", NoReg)

\* An instruction group of a block, in program order: the definition of a
\* register by lifted code, the stores of a Pack, a call, a return, the
\* extraction of a call's result, the loads of an Unpack.
Ins(k, pack, conv, tail, args) ==
    [k |-> k, pack |-> pack, conv |-> conv, tail |-> tail, args |-> args]
DefIns(key) == Ins("def", 0, key[2], FALSE, <<RegVal(key[1])>>)
StoresIns(p) == Ins("stores", p, "", FALSE, <<>>)
CallIns(conv, tail, args) == Ins("call", 0, conv, tail, args)
RetIns(vals) == Ins("ret", 0, "", FALSE, vals)
ExtractIns == Ins("extractvalues", 0, "", FALSE, <<CallResult>>)
LoadsIns(cc, src) == Ins("loads", 0, cc, FALSE, <<Opnd(src, NoReg)>>)

VARIABLES
    cconv,          \* the convention of the function being lifted (*this)
    succs,          \* succs[b]: the successors of block b
    regfile,        \* regfile[b]: the virtual register file of block b
    code,           \* code[b]: the instruction groups emitted into block b
    packs,          \* fi.call_conv_packs
    erased,         \* the stores erased from the IR: <<pack index, sptr_idx>>
    pc,             \* "codegen", "lifted", "opt", "erase", "done", "aborted", "resolve"
    budget,         \* the operations the lifter may still perform
    bb_map,         \* OptimizePacks: block -> (present, pre, post)
    queue,          \* OptimizePacks: the pending set
    queue_vec,      \* OptimizePacks: what is left of this round's vector
    new_queue_vec,  \* OptimizePacks: the next round's vector
    resolve_fn,     \* FromFunction: the function handle fn
    resolved,       \* FromFunction: the result, "none" before the call
    map_regs,       \* register mapper: the two registers looked up
    map_idx         \* register mapper: their argument and return indices

vars == <<cconv, succs, regfile, code, packs, erased, pc, budget,
          bb_map, queue, queue_vec, new_queue_vec, resolve_fn, resolved,
          map_regs, map_idx>>
optvars == <<bb_map, queue, queue_vec, new_queue_vec>>
resvars == <<resolve_fn, resolved>>
mapvars == <<map_regs, map_idx>>

Predecessors(b) == {p \in Blocks : b \in succs[p]}
Successors(b) == succs[b]

Edges(s) == {<<a, b>> \in Blocks \X Blocks : b \in s[a]}
CFGs == {s \in [Blocks -> SUBSET Blocks] : Cardinality(Edges(s)) <= MaxEdges}
\* entry -> 2 -> 3, a straight line.
ChainCFG == [b \in Blocks |-> IF b = 3 THEN {} ELSE {b + 1}]

NoEntry == [in |-> FALSE, pre |-> {}, post |-> {}]

\* ------------------------------------------------------------ Pack, Unpack
\* The host sink of Return writes the return buffer, that of Call the argument
\* list; the host source of UnpackParams reads a parameter, that of Call a
\* field of the call's result.
SinkIndex(sink, reg) == IF sink = "ret" THEN hhvm_ret_index(reg) ELSE hhvm_arg_index(reg)
SourceVal(src, reg) ==
    IF src = "arg" THEN Val("arg", hhvm_arg_index(reg)) ELSE Val("field", hhvm_ret_index(reg))

\* The entries of cpu_struct_entries that go to the host sink or come from the
\* host source (the branch that ends in continue), and those that go through
\* the CPU struct.
IsHostEntry(cc, i) == cc = "HHVM" /\ hhvm_is_host_reg(cpu_struct_entries[i].reg)
HostEntries(cc) == {i \in Entries : IsHostEntry(cc, i)}
SptrEntries(cc) == {i \in Entries : ~IsHostEntry(cc, i)}

Max(S) == CHOOSE x \in S : \A y \in S : y <= x

\* buf after hhvm_fn(reg, reg_val) of Call or Return ran for the entries H in
\* registry order: buf[SinkIndex(reg)] = reg_val, the last write of a slot
\* staying. A write at or past size() is out of bounds.
SinkWrites(sink, H, buf) ==
    IF H = {} THEN buf
    ELSE [j \in 1..Len(buf) |->
            LET W == {i \in H : SinkIndex(sink, cpu_struct_entries[i].reg) = j - 1}
            IN  IF W = {} THEN buf[j] ELSE RegVal(cpu_struct_entries[Max(W)].reg)]
SinkOutOfBounds(sink, H, buf) ==
    \E i \in H : SinkIndex(sink, cpu_struct_entries[i].reg) >= Len(buf)

\* A faulty Pack that takes the snapshot after its loop cleared the dirty bits.
NewPackInfoCleared(b, rf) ==
    [bb |-> b, block_dirty_regs |-> rf.dirty \ {EntryBit(i) : i \in Entries},
     stores |-> [s \in Slots |-> FALSE]]

\* pack_info before the loop: the dirty registers of the block and the block.
NewPackInfo(b, rf) ==
    [bb |-> b, block_dirty_regs |-> rf.dirty, stores |-> [s \in Slots |-> FALSE]]

\* A faulty Pack that sets the cleaned bits and leaves the dirty bits.
PackRegFileKeepDirty(rf, S) ==
    [rf EXCEPT !.cleaned = @ \cup {EntryBit(i) : i \in S}]

\* The register file after Pack's loop stored the entries S.
PackRegFile(rf, S) ==
    [rf EXCEPT !.dirty = @ \ {EntryBit(i) : i \in S},
               !.cleaned = @ \cup {EntryBit(i) : i \in S}]

\* pack_info.stores after the loop stored the entries S.
PackStores(S) ==
    LET stored == {cpu_struct_entries[i].sptr_idx : i \in S}
    IN  [s \in Slots |-> s \in stored]

\* A faulty Pack whose host branch lacks the continue: the host-mapped entries
\* are handed to the sink and stored to the CPU struct as well.
PackNoContinue(cc, b, rf, sink, buf) ==
    LET pack_info == NewPackInfo(b, rf)
    IN  [rf |-> PackRegFile(rf, Entries),
         info |-> [pack_info EXCEPT !.stores = PackStores(Entries)],
         buf |-> SinkWrites(sink, HostEntries(cc), buf),
         oob |-> SinkOutOfBounds(sink, HostEntries(cc), buf)]

\* Pack's loop runs once over cpu_struct_entries; its iterations touch
\* different bits and slots, so its result is given per entry.
Pack(cc, b, rf, sink, buf) ==
    LET pack_info == NewPackInfo(b, rf)
    IN  [rf |-> PackRegFile(rf, SptrEntries(cc)),
         info |-> [pack_info EXCEPT !.stores = PackStores(SptrEntries(cc))],
         buf |-> SinkWrites(sink, HostEntries(cc), buf),
         oob |-> SinkOutOfBounds(sink, HostEntries(cc), buf)]

\* The value Unpack sets for the registry entry i.
UnpackVal(cc, src, i) ==
    IF IsHostEntry(cc, i) THEN SourceVal(src, cpu_struct_entries[i].reg)
    ELSE Val("load", cpu_struct_entries[i].sptr_idx)

\* A faulty Unpack that resets no dirty bit.
UnpackDirtyKeep(cc, dirty) == dirty

\* The dirty registers after Unpack's loop: the bit of every entry loaded from
\* the CPU struct is reset, SetReg(.., false) sets none.
UnpackDirty(cc, dirty) == dirty \ {EntryBit(i) : i \in SptrEntries(cc)}

Unpack(cc, rf, src) ==
    LET cleared == Clear(rf)
    IN  [cleared EXCEPT !.val = [i \in Entries |-> UnpackVal(cc, src, i)],
                        !.dirty = UnpackDirty(cc, @)]

\* ------------------------------------------------------------------- Init
NoFn == [cc |-> "C", ty |-> NullFnType]

NoEdges == [b \in Blocks |-> {}]
NoIdx == [arg |-> <<>>, ret |-> <<>>]

InitFunction(ops, writes) ==
    /\ cconv \in Conventions
    /\ succs = NoEdges
    /\ regfile = [b \in Blocks |-> EmptyRegFile]
    /\ code = [b \in Blocks |-> <<>>]
    /\ packs = <<>>
    /\ erased = {}
    /\ pc = "codegen"
    /\ budget = [ops |-> ops, writes |-> writes]
    /\ bb_map = [b \in Blocks |-> NoEntry]
    /\ queue = {}
    /\ queue_vec = <<>>
    /\ new_queue_vec = <<>>
    /\ resolve_fn = NoFn
    /\ resolved = "none"
    /\ map_regs = <<NoReg, NoReg>>
    /\ map_idx = NoIdx


Init == InitFunction(MaxOps, MaxWrites)
LoopInit == InitFunction(MaxLoopOps, MaxWrites)
StraightInit == InitFunction(MaxOps, MaxStraightWrites)

\* ------------------------------------------------------- boundary codegen
Terminated(b) == code[b] # <<>> /\ code[b][Len(code[b])].k = "ret"

CanEmit(b) == pc = "codegen" /\ budget.ops > 0 /\ ~Terminated(b)
CanWrite(b) == pc = "codegen" /\ budget.writes > 0 /\ ~Terminated(b)

\* The lifter writes a register/facet of block b (RegFile::SetReg, dirty).
LiftWrite(b, key) ==
    /\ CanWrite(b)
    /\ regfile' = [regfile EXCEPT ![b] = SetReg(@, key[1], key[2], Val("def", 0), TRUE)]
    /\ code' = [code EXCEPT ![b] = Append(@, DefIns(key))]
    /\ budget' = [budget EXCEPT !.writes = @ - 1]
    /\ UNCHANGED <<cconv, succs, packs, erased, pc, optvars, resvars, mapvars>>

\* A faulty Return that leaves the placeholder field empty.
HhvmRetBufferNoUndef(cc) ==
    IF cc = "HHVM" THEN [i \in 1..14 |-> Null] ELSE <<>>

HhvmRetBuffer(cc) ==
    IF cc = "HHVM" THEN [i \in 1..14 |-> IF i = 13 THEN Undef ELSE Null] ELSE <<>>

Return(b) ==
    /\ CanEmit(b)
    /\ LET r == Pack(cconv, b, regfile[b], "ret", HhvmRetBuffer(cconv))
       IN  /\ regfile' = [regfile EXCEPT ![b] = r.rf]
           /\ packs' = Append(packs, r.info)
           /\ code' = [code EXCEPT ![b] = @ \o <<StoresIns(Len(packs) + 1), RetIns(r.buf)>>]
    /\ budget' = [budget EXCEPT !.ops = @ - 1]
    /\ UNCHANGED <<cconv, succs, erased, pc, optvars, resvars, mapvars>>

UnpackParams(b) ==
    /\ CanEmit(b)
    /\ regfile' = [regfile EXCEPT ![b] = Unpack(cconv, @, "arg")]
    /\ code' = [code EXCEPT ![b] = Append(@, LoadsIns(cconv, "arg"))]
    /\ budget' = [budget EXCEPT !.ops = @ - 1]
    /\ UNCHANGED <<cconv, succs, packs, erased, pc, optvars, resvars, mapvars>>

\* The callee fn of Call: a function of convention callee with its signature.
CalleeFn(callee) == [cc |-> FnCallConv(callee), ty |-> FnType(callee, 0)]

\* call_args after resize(fn->arg_size()) and the write of fi.sptr_raw.
CallArgs(cc, fn) ==
    LET idx == CpuStructParamIdx(cc)
    IN  [buf |-> [i \in 1..Len(fn.ty.params) |-> IF i = idx + 1 THEN SptrRaw ELSE Null],
         oob |-> idx >= Len(fn.ty.params)]

\* A faulty tail call that unpacks the CPU state after the call.
CallTailUnpacks(cc, fn, rf, call) ==
    [rf |-> Unpack(cc, rf, "field"),
     code |-> <<[call EXCEPT !.tail = TRUE],
                IF fn.ty.ret = VoidTy THEN RetIns(<<>>) ELSE RetIns(<<CallResult>>)>>]

\* What Call emits after Pack: the call, then the return of a tail call or the
\* extraction of the result and Unpack.
CallTail(cc, fn, rf, call) ==
    [rf |-> rf,
     code |-> <<[call EXCEPT !.tail = TRUE],
                IF fn.ty.ret = VoidTy THEN RetIns(<<>>) ELSE RetIns(<<CallResult>>)>>]

CallNoTail(cc, fn, rf, call) ==
    [rf |-> Unpack(cc, rf, "field"),
     code |-> <<call>> \o (IF cc = "HHVM" THEN <<ExtractIns>> ELSE <<>>)
              \o <<LoadsIns(cc, "field")>>]

CallEmit(cc, fn, rf, args, tail_call) ==
    LET call == CallIns(fn.cc, FALSE, args)
    IN  IF tail_call THEN CallTail(cc, fn, rf, call) ELSE CallNoTail(cc, fn, rf, call)

\* Undefined behaviour in Call: an argument written past the end of call_args,
\* or a field extracted from a call that returns void.
CallUndefined(cc, fn, oob, tail_call) ==
    oob \/ (~tail_call /\ cc = "HHVM" /\ fn.ty.ret = VoidTy)

Call(b, callee, tail_call) ==
    /\ CanEmit(b)
    /\ LET fn == CalleeFn(callee)
           a == CallArgs(cconv, fn)
           r == Pack(cconv, b, regfile[b], "arg", a.buf)
           out == CallEmit(cconv, fn, r.rf, r.buf, tail_call)
       IN  \/ /\ regfile' = [regfile EXCEPT ![b] = out.rf]
              /\ packs' = Append(packs, r.info)
              /\ code' = [code EXCEPT ![b] = @ \o <<StoresIns(Len(packs) + 1)>> \o out.code]
              /\ budget' = [budget EXCEPT !.ops = @ - 1]
              /\ UNCHANGED <<cconv, succs, erased, pc, optvars, resvars, mapvars>>
           \/ /\ CallUndefined(cconv, fn, a.oob \/ r.oob, tail_call)
              /\ pc' = "aborted"
              /\ regfile' = [x \in Blocks |-> EmptyRegFile]
              /\ code' = [x \in Blocks |-> <<>>]
              /\ packs' = <<>>
              /\ budget' = [ops |-> 0, writes |-> 0]
              /\ UNCHANGED <<cconv, succs, erased, optvars, resvars, mapvars>>

\* The lifter ends the blocks with their branches: the CFG of the function is
\* s. No operation of the boundary codegen reads the CFG, so the branches are
\* taken to be lifted last.
LiftBranches(s) ==
    /\ pc = "codegen"
    /\ pc' = "lifted"
    /\ succs' = s
    /\ UNCHANGED <<cconv, regfile, code, packs, erased, budget, optvars, resvars, mapvars>>

\* ---------------------------------------------------------- OptimizePacks
OptBegin ==
    /\ pc = "lifted"
    /\ pc' = "opt"
    /\ bb_map' = [b \in Blocks |-> NoEntry]
    /\ queue' = {EntryBlock}
    /\ queue_vec' = <<EntryBlock>>
    /\ new_queue_vec' = <<>>
    /\ UNCHANGED <<cconv, succs, regfile, code, packs, erased, budget, resvars, mapvars>>

UnionOf(S) == UNION S

\* A faulty pre that takes the post of the first predecessor only.
PreOfFirstPred(bb, map) ==
    LET preds == Predecessors(bb)
    IN  IF preds = {} THEN {}
        ELSE map[CHOOSE p \in preds : \A q \in preds : p <= q].post

PreOf(bb, map) == UnionOf({map[pred].post : pred \in Predecessors(bb)})
\* A faulty transfer function with the operands of the difference swapped: it
\* is not monotone in pre.
PostOfSwapped(pre, rf) == (rf.cleaned \ pre) \cup rf.dirty

PostOf(pre, rf) == (pre \ rf.cleaned) \cup rf.dirty

\* A faulty worklist that looks at the successors only the first time.
RequeueFirstOnly(inserted, oldpost, post) == inserted

\* A faulty worklist that looks at the successors every time.
RequeueAlways(inserted, oldpost, post) == TRUE

\* Whether the successors of bb are looked at (again).
Requeue(inserted, oldpost, post) == inserted \/ oldpost # post

\* The successors of bb not yet pending, in the order they are pushed.
RECURSIVE PushSuccs(_, _, _)
PushSuccs(S, q, vec) ==
    IF S = {} THEN [queue |-> q, vec |-> vec]
    ELSE LET succ == CHOOSE x \in S : \A y \in S : x <= y
         IN  IF succ \in q THEN PushSuccs(S \ {succ}, q, vec)
             ELSE PushSuccs(S \ {succ}, q \cup {succ}, Append(vec, succ))

\* One iteration of the loop over queue_vec; leaving the loop moves
\* new_queue_vec into queue_vec, and an empty pending set ends the while loop.
OptVisit ==
    /\ pc = "opt"
    /\ queue_vec # <<>>
    /\ LET bb == Head(queue_vec)
           q1 == queue \ {bb}
           pre == PreOf(bb, bb_map)
           post == PostOf(pre, regfile[bb])
           inserted == ~bb_map[bb].in
           pushed == IF Requeue(inserted, bb_map[bb].post, post)
                     THEN PushSuccs(Successors(bb), q1, new_queue_vec)
                     ELSE [queue |-> q1, vec |-> new_queue_vec]
       IN  /\ bb_map' = [bb_map EXCEPT ![bb] = [in |-> TRUE, pre |-> pre, post |-> post]]
           /\ queue' = pushed.queue
           /\ IF Tail(queue_vec) = <<>>
              THEN /\ queue_vec' = pushed.vec
                   /\ new_queue_vec' = <<>>
                   /\ pc' = IF pushed.queue = {} THEN "erase" ELSE "opt"
              ELSE /\ queue_vec' = Tail(queue_vec)
                   /\ new_queue_vec' = pushed.vec
                   /\ pc' = "opt"
    /\ UNCHANGED <<cconv, succs, regfile, code, packs, erased, budget, resvars, mapvars>>

\* A faulty eraser that leaves out the dirty registers recorded by the pack.
DeadStoresPreOnly(p, map) ==
    LET pack == packs[p]
        regset == map[pack.bb].pre
    IN  {<<p, cpu_struct_entries[i].sptr_idx>> : i \in
            {j \in Entries : /\ pack.stores[cpu_struct_entries[j].sptr_idx]
                                   /\ EntryBit(j) \notin regset}}

\* A faulty eraser that takes the dirty registers at the end of the block.
DeadStoresPost(p, map) ==
    LET pack == packs[p]
        regset == map[pack.bb].post \cup pack.block_dirty_regs
    IN  {<<p, cpu_struct_entries[i].sptr_idx>> : i \in
            {j \in Entries : /\ pack.stores[cpu_struct_entries[j].sptr_idx]
                                   /\ EntryBit(j) \notin regset}}

\* A faulty eraser that leaves out the dirty registers at the entry of the
\* block.
DeadStoresDirtyOnly(p, map) ==
    LET pack == packs[p]
        regset == pack.block_dirty_regs
    IN  {<<p, cpu_struct_entries[i].sptr_idx>> : i \in
            {j \in Entries : /\ pack.stores[cpu_struct_entries[j].sptr_idx]
                                   /\ EntryBit(j) \notin regset}}

\* The stores of a pack that are erased: recorded, and not in regset.
DeadStores(p, map) ==
    LET pack == packs[p]
        regset == map[pack.bb].pre \cup pack.block_dirty_regs
    IN  {<<p, cpu_struct_entries[i].sptr_idx>> : i \in
            {j \in Entries : /\ pack.stores[cpu_struct_entries[j].sptr_idx]
                                   /\ EntryBit(j) \notin regset}}

OptErase ==
    /\ pc = "erase"
    /\ erased' = UnionOf({DeadStores(p, bb_map) : p \in 1..Len(packs)})
    /\ pc' = "done"
    /\ UNCHANGED <<cconv, succs, regfile, code, packs, budget, optvars, resvars, mapvars>>

\* ------------------------------------------------------------------- Next
OptimizePacks == OptBegin \/ OptVisit \/ OptErase

\* Every CFG: the lifter writes one register, which goes through the CPU
\* struct under both conventions, a callee has the convention of the caller,
\* the parameters are unpacked in the entry block.
FlowKey == Key(GP(12), "I64")
Next ==
    \/ \E b \in Blocks : LiftWrite(b, FlowKey)
    \/ \E b \in Blocks : Return(b)
    \/ UnpackParams(EntryBlock)
    \/ \E b \in Blocks, tail_call \in BOOLEAN : Call(b, cconv, tail_call)
    \/ \E s \in CFGs : LiftBranches(s)
    \/ OptimizePacks

Spec == Init /\ [][Next]_vars

\* OptimizePacks runs its loop to the end: an iteration that can be taken is
\* taken.
FairSpec == LoopInit /\ [][Next]_vars /\ WF_vars(OptVisit)

\* One CFG: every input of the operations.
CodegenNext ==
    \/ \E b \in Blocks, key \in LiftKeys : LiftWrite(b, key)
    \/ \E b \in Blocks : Return(b)
    \/ \E b \in Blocks : UnpackParams(b)
    \/ \E b \in Blocks, callee \in Conventions, tail_call \in BOOLEAN :
            Call(b, callee, tail_call)
    \/ LiftBranches(ChainCFG)
    \/ OptimizePacks

CodegenSpec == Init /\ [][CodegenNext]_vars

\* A straight-line function: the blocks of ChainCFG are run one after the
\* other, the lifter writes the registers R1 and R2, which go through the CPU
\* struct under both conventions, and the pack points are calls of a callee
\* with the convention of the caller and returns.
R1 == Key(GP(12), "I64")
R2 == Key(GP(13), "I64")
StraightNext ==
    \/ \E b \in Blocks, key \in {R1, R2} : LiftWrite(b, key)
    \/ \E b \in Blocks : Return(b)
    \/ \E b \in Blocks, tail_call \in BOOLEAN : Call(b, cconv, tail_call)
    \/ LiftBranches(ChainCFG)
    \/ OptimizePacks

StraightSpec == StraightInit /\ [][StraightNext]_vars

\* ---------------------------------------------------------- FromFunction
AddrSpaces == 0..(NumAddrSpaces - 1)
CallingConvs == {"C", "HHVM", "Fast"}
HhvmParams(as) == FnType("HHVM", as).params

\* Parameter lists: those of the two conventions, and ones that differ from
\* them in the count, in the place or type of the pointer, or in one type.
ParamLists ==
    {<<>>, <<I64Ty>>}
    \cup UNION {{<<I8PtrTy(as)>>, <<I64PtrTy(as)>>, <<I8PtrTy(as), I64Ty>>,
                 <<I64Ty, I8PtrTy(as)>>, HhvmParams(as),
                 [HhvmParams(as) EXCEPT ![1] = I8PtrTy(as)],
                 [HhvmParams(as) EXCEPT ![2] = I64Ty],
                 [HhvmParams(as) EXCEPT ![2] = I64PtrTy(as)],
                 [HhvmParams(as) EXCEPT ![14] = I8PtrTy(as)],
                 HhvmParams(as) \o <<I64Ty>>,
                 SubSeq(HhvmParams(as), 1, 13)} : as \in AddrSpaces}
Functions ==
    [cc : CallingConvs,
     ty : [ret : {VoidTy, I64Ty, Struct14Ty}, params : ParamLists, vararg : BOOLEAN]]

ResolveInit ==
    /\ cconv = "SPTR"
    /\ succs = NoEdges
    /\ regfile = [b \in Blocks |-> EmptyRegFile]
    /\ code = [b \in Blocks |-> <<>>]
    /\ packs = <<>>
    /\ erased = {}
    /\ pc = "resolve"
    /\ budget = [ops |-> 0, writes |-> 0]
    /\ bb_map = [b \in Blocks |-> NoEntry]
    /\ queue = {}
    /\ queue_vec = <<>>
    /\ new_queue_vec = <<>>
    /\ resolve_fn \in Functions
    /\ resolved = "none"
    /\ map_regs = <<NoReg, NoReg>>
    /\ map_idx = NoIdx

Resolve ==
    /\ pc = "resolve"
    /\ resolved = "none"
    /\ resolved' = FromFunction(resolve_fn)
    /\ UNCHANGED <<cconv, succs, regfile, code, packs, erased, pc, budget, optvars,
                   resolve_fn, mapvars>>

ResolveNext == Resolve

ResolveSpec == ResolveInit /\ [][ResolveNext]_vars

\* -------------------------------------------------------- register mapper
\* The registers that may be looked up, two at a time.
AllRegs == {IP} \cup {GP(i) : i \in 0..15}

MapInit ==
    /\ cconv = "HHVM"
    /\ succs = NoEdges
    /\ regfile = [b \in Blocks |-> EmptyRegFile]
    /\ code = [b \in Blocks |-> <<>>]
    /\ packs = <<>>
    /\ erased = {}
    /\ pc = "map"
    /\ budget = [ops |-> 0, writes |-> 0]
    /\ bb_map = [b \in Blocks |-> NoEntry]
    /\ queue = {}
    /\ queue_vec = <<>>
    /\ new_queue_vec = <<>>
    /\ resolve_fn = NoFn
    /\ resolved = "none"
    /\ map_regs \in AllRegs \X AllRegs
    /\ map_idx = NoIdx

\* The caller looks a register up only after hhvm_is_host_reg (the assert).
MapRegs ==
    /\ pc = "map"
    /\ map_idx = NoIdx
    /\ hhvm_is_host_reg(map_regs[1]) /\ hhvm_is_host_reg(map_regs[2])
    /\ map_idx' = [arg |-> <<hhvm_arg_index(map_regs[1]), hhvm_arg_index(map_regs[2])>>,
                   ret |-> <<hhvm_ret_index(map_regs[1]), hhvm_ret_index(map_regs[2])>>]
    /\ UNCHANGED <<cconv, succs, regfile, code, packs, erased, pc, budget, optvars,
                   resvars, map_regs>>

MapNext == MapRegs

MapSpec == MapInit /\ [][MapNext]_vars

\* ================================================================ claims

\* The convention FromFunction guesses from the linkage tag of f, and the four
\* checks of the guess.
Guess(f) == IF f.cc = "HHVM" THEN "HHVM" ELSE "SPTR"
LinkageMatches(f) == f.cc = FnCallConv(Guess(f))
SptrIndexInRange(f) == CpuStructParamIdx(Guess(f)) < Len(f.ty.params)
SptrParam(f) == f.ty.params[CpuStructParamIdx(Guess(f)) + 1]
SptrIsPointer(f) == SptrIndexInRange(f) /\ IsPointerTy(SptrParam(f))
SignatureMatches(f) ==
    SptrIsPointer(f) /\ f.ty = FnType(Guess(f), PointerAddressSpace(SptrParam(f)))

\* C8: FromFunction returns INVALID whenever the linkage tag differs from that
\* of the guessed convention, the struct pointer index is not below the
\* parameter count, that parameter is no pointer, or the function type differs
\* from the signature of the guessed convention; it returns a convention, the
\* guessed one, only when all four checks pass.
C8_ResolveInvalidOnMismatch ==
    resolved # "none" =>
        /\ resolved = "INVALID" <=>
              ~(/\ LinkageMatches(resolve_fn)
                /\ SptrIndexInRange(resolve_fn)
                /\ SptrIsPointer(resolve_fn)
                /\ SignatureMatches(resolve_fn))
        /\ resolved # "INVALID" => resolved = Guess(resolve_fn)

\* A function whose linkage, index and pointer checks pass and whose type
\* differs from the signature was rejected.
C8_Witness ==
    /\ resolved = "INVALID"
    /\ LinkageMatches(resolve_fn)
    /\ SptrIsPointer(resolve_fn)
    /\ resolve_fn.cc = "HHVM"

\* C9: a function whose type is the signature of a convention c, for any
\* address space, and whose linkage tag is that of c resolves to c.
C9_ResolveRoundTrip ==
    \A c \in Conventions, as \in AddrSpaces :
        (resolved # "none" /\ resolve_fn = [cc |-> FnCallConv(c), ty |-> FnType(c, as)])
            => resolved = c

\* The HHVM signature over the second address space was resolved to HHVM.
C9_Witness ==
    /\ resolved = "HHVM"
    /\ resolve_fn = [cc |-> FnCallConv("HHVM"), ty |-> FnType("HHVM", 1)]

\* ------------------------------------------------- Pack, Unpack, tail call
\* A step in which block b performs Pack: Return, or a Call that does not run
\* into undefined behaviour.
CallStep(b, tail_call) ==
    \E callee \in Conventions : Call(b, callee, tail_call) /\ pc' # "aborted"
PackStep(b) == Return(b) \/ CallStep(b, TRUE) \/ CallStep(b, FALSE)
\* A step in which block b performs Unpack.
UnpackStep(b) == UnpackParams(b) \/ CallStep(b, FALSE)

RegistryKeys == {EntryKey(i) : i \in Entries}
\* The bits of the entries that go through the CPU struct under convention cc.
SptrBits(cc) ==
    {EntryBit(i) : i \in {j \in Entries :
        ~(cc = "HHVM" /\ hhvm_is_host_reg(cpu_struct_entries[j].reg))}}
\* What block b emitted in the step.
Emitted(b) == SubSeq(code'[b], Len(code[b]) + 1, Len(code'[b]))

\* C5: after Pack under NATIVE_STRUCT_POINTER (SPTR), for every registry entry
\* the dirty bit of its register/facet is false, its cleaned bit is true, and
\* the pack record holds a store for the slot of the entry.
C5_PackCleansEveryEntry ==
    [][\A b \in Blocks : (cconv = "SPTR" /\ PackStep(b)) =>
          \A i \in Entries :
              /\ EntryBit(i) \notin regfile'[b].dirty
              /\ EntryBit(i) \in regfile'[b].cleaned
              /\ packs'[Len(packs')].stores[cpu_struct_entries[i].sptr_idx]]_vars

\* Under SPTR a block wrote a facet of GP12, which set the dirty bit, and then
\* returned: the pack has cleaned the bit.
C5_Witness ==
    /\ cconv = "SPTR"
    /\ \E b \in Blocks :
          /\ code[b] = <<DefIns(Key(GP(12), "I32")), StoresIns(1), RetIns(<<>>)>>
          /\ 12 \notin regfile[b].dirty
          /\ 12 \in regfile[b].cleaned

\* Pack in block b appended one record: the block, and the dirty registers the
\* block had before the step.
Appended(b) ==
    /\ Len(packs') = Len(packs) + 1
    /\ SubSeq(packs', 1, Len(packs)) = packs
    /\ packs'[Len(packs')].bb = b
    /\ packs'[Len(packs')].block_dirty_regs = regfile[b].dirty

\* C6: each Pack, reached through Return, a tail Call or a non-tail Call,
\* appends exactly one pack record and leaves the earlier records unchanged;
\* the new record references the packing block and its snapshot is the dirty
\* set of the block as it was before Pack cleared a bit. UnpackParams appends
\* no record.
C6_OneRecordPerPack ==
    [][\A b \in Blocks :
          /\ Return(b) => Appended(b)
          /\ CallStep(b, TRUE) => Appended(b)
          /\ CallStep(b, FALSE) => Appended(b)
          /\ UnpackParams(b) => packs' = packs]_vars

\* Two packs in different blocks; the first found a dirty register, recorded
\* it, and cleared it in the register file.
C6_Witness ==
    /\ Len(packs) = 2
    /\ packs[1].bb # packs[2].bb
    /\ packs[1].block_dirty_regs = {12}
    /\ regfile[packs[1].bb].dirty = {}

C10_TailCallReturnsAtOnce ==
    [][\A b \in Blocks, callee \in Conventions :
          (Call(b, callee, TRUE) /\ pc' # "aborted") =>
              LET void == FnType(callee, 0).ret = VoidTy
              IN  /\ Appended(b)
                  /\ Len(Emitted(b)) = 3
                  /\ Emitted(b)[1] = StoresIns(Len(packs'))
                  /\ Emitted(b)[2].k = "call" /\ Emitted(b)[2].tail
                  /\ Emitted(b)[3].k = "ret"
                  /\ Emitted(b)[3].args = IF void THEN <<>> ELSE <<CallResult>>
                  /\ regfile'[b].val = regfile[b].val
                  /\ regfile'[b].extra = regfile[b].extra
                  /\ regfile'[b].dirty = regfile[b].dirty \ SptrBits(cconv)
                  /\ regfile'[b].cleaned = regfile[b].cleaned \cup SptrBits(cconv)]_vars

\* A block wrote a register and tail-called a callee that returns a value: the
\* call is followed by the return of its result and the written value is still
\* in the register file.
C10_Witness ==
    \E b \in Blocks :
        /\ Len(code[b]) = 4
        /\ code[b][1] = DefIns(Key(GP(12), "I64"))
        /\ code[b][3].k = "call" /\ code[b][3].tail
        /\ code[b][4] = RetIns(<<CallResult>>)
        /\ GetReg(regfile[b], GP(12), "I64") = Val("def", 0)

\* ---------------------------------------------------------- OptimizePacks
\* The blocks on a path from the entry block.
RECURSIVE ReachableFrom(_)
ReachableFrom(S) ==
    LET T == S \cup UNION {succs[b] : b \in S}
    IN  IF T = S THEN S ELSE ReachableFrom(T)
Reachable == ReachableFrom({EntryBlock})

\* The least solution of post(b) = (pre(b) \ cleaned(b)) \cup dirty(b),
\* pre(b) = the union of post over the predecessors of b, over the reachable
\* blocks; a block that is not reachable has the empty sets.
ReferencePre(R, post, b) ==
    IF b \in R THEN UNION {post[q] : q \in {x \in Blocks : b \in succs[x]}} ELSE {}
RECURSIVE LeastPost(_, _)
LeastPost(R, post) ==
    LET next == [b \in Blocks |->
                    IF b \in R
                    THEN (ReferencePre(R, post, b) \ regfile[b].cleaned) \cup regfile[b].dirty
                    ELSE {}]
    IN  IF next = post THEN post ELSE LeastPost(R, next)
ConvergedPre ==
    LET R == Reachable
        post == LeastPost(R, [b \in Blocks |-> {}])
    IN  [b \in Blocks |-> ReferencePre(R, post, b)]

\* The paths of the CFG from the entry block. A register that is out of sync
\* with its slot at a point is so on a path of at most 2 * |Blocks| blocks: a
\* simple path to the block of the write, then a simple path through blocks
\* that leave the register alone.
RECURSIVE PathsOfLength(_)
PathsOfLength(n) ==
    IF n = 1 THEN {<<EntryBlock>>}
    ELSE LET P == PathsOfLength(n - 1)
         IN  P \cup UNION {{Append(path, s) : s \in succs[path[Len(path)]]} : path \in P}
Paths == PathsOfLength(2 * Cardinality(Blocks))

\* The place in its block of the stores of pack p.
PackPlace(p) ==
    CHOOSE k \in 1..Len(code[packs[p].bb]) : code[packs[p].bb][k] = StoresIns(p)

\* The instruction groups run on path up to the stores of pack p, which is in
\* the last block of the path: <<n, k>> is group k of the n-th block.
Before(path, p) ==
    UNION {{<<n, k>> : k \in 1..(IF n = Len(path) THEN PackPlace(p) - 1
                                  ELSE Len(code[path[n]]))} : n \in 1..Len(path)}
Later(x, y) == x[1] < y[1] \/ (x[1] = y[1] /\ x[2] < y[2])
At(path, x) == code[path[x[1]]][x[2]]

\* The register bit an instruction group writes in the register file, and
\* whether a group brings bit in sync with its slot in the CPU struct: a load
\* of the slot, or a store of the slot; elided says that the stores erased by
\* OptimizePacks are gone.
Writes(ins) ==
    IF ins.k = "def"
    THEN {RegisterSetBitIdx(Reg(ins.args[1][2], ins.args[1][3]), ins.conv)}
    ELSE {}
Syncs(ins, i, elided) ==
    \/ /\ ins.k = "loads"
       /\ ~(ins.conv = "HHVM" /\ hhvm_is_host_reg(cpu_struct_entries[i].reg))
    \/ /\ ins.k = "stores"
       /\ packs[ins.pack].stores[cpu_struct_entries[i].sptr_idx]
       /\ ~(elided /\ <<ins.pack, cpu_struct_entries[i].sptr_idx>> \in erased)

\* The registry entry i was written on path and not brought in sync since,
\* when control reaches the stores of pack p.
OutOfSync(path, p, i, elided) ==
    LET B == Before(path, p)
    IN  \E x \in B :
            /\ EntryBit(i) \in Writes(At(path, x))
            /\ \A y \in B : Later(x, y) => ~Syncs(At(path, y), i, elided)

\* The registry entries whose register some instruction of the function
\* writes; no other entry is ever out of sync.
Written ==
    LET bits == UNION {UNION {Writes(code[b][k]) : k \in 1..Len(code[b])} : b \in Blocks}
    IN  {i \in Entries : EntryBit(i) \in bits}

\* The registry entries with a store recorded in pack p.
Stored(p) == {i \in Entries : packs[p].stores[cpu_struct_entries[i].sptr_idx]}
Erased(p) == {i \in Stored(p) : <<p, cpu_struct_entries[i].sptr_idx>> \in erased}

\* C1: store elimination is sound. For every CFG and every sequence of
\* register writes, Pack and Unpack in its blocks, OptimizePacks erases the
\* store of a registry entry at a pack only if on every path from the entry
\* block to the pack the register was not written since it was last loaded
\* from or stored to its slot; and with the erased stores gone, every
\* register that goes through the CPU struct is still in sync with its slot
\* after each pack, on every path: the CPU struct at every call and return is
\* the same with and without the erased stores.
C1_EliminationSound ==
    pc = "done" =>
        \A p \in 1..Len(packs) : \A i \in Erased(p) \cap Written :
            \A path \in {x \in Paths : x[Len(x)] = packs[p].bb} :
                /\ ~OutOfSync(path, p, i, FALSE)
                /\ ~OutOfSync(path, p, i, TRUE)

\* A block wrote GP12 and packed, which stored GP12; a later pack on a path
\* through that block had its store of GP12 erased, and the store of the first
\* pack was kept.
C1_Witness ==
    /\ pc = "done"
    /\ Len(packs) = 2
    /\ packs[1].block_dirty_regs = {12}
    /\ packs[1].bb # packs[2].bb
    /\ packs[2].bb \in succs[packs[1].bb]
    /\ packs[1].bb \in Reachable
    /\ <<1, 13>> \notin erased
    /\ <<2, 13>> \in erased

\* C2: after OptimizePacks, for every pack record and every registry entry
\* with a store recorded in it, the store is erased if and only if the bit of
\* the entry is neither in pre of the block of the record, the converged set
\* at the entry of the block, nor in the dirty registers recorded at pack
\* time; nothing else is erased.
C2_ErasedIffNotLive ==
    pc = "done" =>
        /\ LET pre == ConvergedPre
           IN  \A p \in 1..Len(packs) :
                   Erased(p) = {i \in Stored(p) :
                       EntryBit(i) \notin pre[packs[p].bb] \cup packs[p].block_dirty_regs}
        /\ erased \subseteq
              UNION {{<<p, cpu_struct_entries[i].sptr_idx>> : i \in Stored(p)} :
                        p \in 1..Len(packs)}

\* A pack in a block that a written register reaches over an edge: the store
\* of that register is kept for pre alone, the other stores are erased.
C2_Witness ==
    /\ pc = "done"
    /\ \E p \in 1..Len(packs) :
          /\ packs[p].block_dirty_regs = {}
          /\ ConvergedPre[packs[p].bb] = {12}
          /\ <<p, 13>> \notin erased
          /\ <<p, 12>> \in erased

\* C3: the worklist loop of OptimizePacks terminates, the pending set being
\* empty, for every CFG: with loops, self-loops, irreducible control flow or
\* an entry block that has predecessors.
C3_WorklistTerminates == (pc = "opt") ~> (pc = "erase" /\ queue = {})

\* The loop has ended on an irreducible CFG (the loop of blocks 2 and 3 is
\* entered from the entry block at both) through which a written register
\* flows.
C3_Witness ==
    /\ pc = "erase"
    /\ queue = {}
    /\ succs = [b \in Blocks |-> IF b = 1 THEN {2, 3} ELSE {5 - b}]
    /\ bb_map[2].pre # {}
    /\ bb_map[3].pre # {}

\* C4: when the worklist loop has ended, every block b reachable from the
\* entry block has stored sets with pre(b) = the union of the stored post(p)
\* over the predecessors p of b, a predecessor never visited giving the empty
\* set, and post(b) = (pre(b) \ cleaned(b)) \cup dirty(b): the stored pre is
\* not stale.
C4_StoredSetsAreFixpoint ==
    pc \in {"erase", "done"} =>
        \A b \in Reachable :
            /\ bb_map[b].in
            /\ bb_map[b].pre = UNION {bb_map[q].post : q \in {x \in Blocks : b \in succs[x]}}
            /\ bb_map[b].post = (bb_map[b].pre \ regfile[b].cleaned) \cup regfile[b].dirty

\* The loop has ended on a CFG in which the entry block has a predecessor that
\* hands it a dirty register; an unreachable block is a predecessor, too.
C4_Witness ==
    /\ pc = "erase"
    /\ bb_map[EntryBlock].pre = {12}
    /\ \E q \in Blocks : EntryBlock \in succs[q] /\ q \notin Reachable

\* ------------------------------------------- HHVM slots: mapper, Return, Call
HostGPs == {GP(i) : i \in 0..11}
\* The slots of a buffer that hold the value of a general purpose register,
\* and the general purpose registers whose value the buffer holds.
GPSlots(buf) == {j - 1 : j \in {x \in 1..Len(buf) : buf[x][1] = "regval" /\ buf[x][2] = "GP"}}
GPsIn(buf) == {GP(buf[j][3]) : j \in {x \in 1..Len(buf) : buf[x][1] = "regval" /\ buf[x][2] = "GP"}}
\* The return buffers emitted by Return under HHVM, and the argument lists of
\* the calls of an HHVM callee.
RetBuffers ==
    UNION {{code[b][k].args : k \in {x \in 1..Len(code[b]) :
                code[b][x].k = "ret" /\ Len(code[b][x].args) = 14}} : b \in Blocks}
HhvmCallArgs ==
    UNION {{code[b][k].args : k \in {x \in 1..Len(code[b]) :
                code[b][x].k = "call" /\ code[b][x].conv = "HHVM"}} : b \in Blocks}

\* C12: Return under HOST_REGISTER_ABI (HHVM) emits a fully populated
\* aggregate of 14 fields: the registry holding the instruction pointer and
\* the 12 host-mapped general purpose registers, every slot 0..13 of the
\* return buffer holds a value when the return is emitted, slot 12 holds the
\* placeholder, and no two host-mapped registers are written to one slot.
C12_ReturnBufferPopulated ==
    \A buf \in RetBuffers :
        /\ cconv = "HHVM"
        /\ \A j \in 1..14 : buf[j] # Null
        /\ buf[13] = Undef
        /\ \A i \in HostEntries("HHVM") :
              buf[hhvm_ret_index(cpu_struct_entries[i].reg) + 1]
                  = RegVal(cpu_struct_entries[i].reg)

\* A block has returned under HHVM after a write of the host-mapped GP0.
C12_Witness ==
    /\ cconv = "HHVM"
    /\ \E b \in Blocks :
          /\ Len(code[b]) = 3
          /\ code[b][1] = DefIns(Key(GP(0), "I64"))
          /\ code[b][3].k = "ret"
          /\ code[b][3].args[9] = RegVal(GP(0))
          /\ code[b][3].args[1] = RegVal(IP)

\* C13: over the 12 host-mapped general purpose registers the argument index
\* table is injective with every image in 2..13 and the return index table is
\* injective with every image in 1..13, so either table can be inverted;
\* neither image holds a reserved slot: the argument slot of the struct
\* pointer, the placeholder slot 12 of the return.
C13_MapperInjective ==
    (map_idx # NoIdx /\ map_regs[1] \in HostGPs /\ map_regs[2] \in HostGPs) =>
        /\ map_idx.arg[1] \in 2..13
        /\ map_idx.ret[1] \in 1..13
        /\ map_idx.arg[1] = map_idx.arg[2] => map_regs[1] = map_regs[2]
        /\ map_idx.ret[1] = map_idx.ret[2] => map_regs[1] = map_regs[2]
        /\ map_idx.arg[1] # CpuStructParamIdx("HHVM")
        /\ map_idx.ret[1] # 12

\* RDI and RSP were looked up: parameters 4 and 3, fields 2 and 13.
C13_Witness ==
    /\ map_regs = <<GP(7), GP(4)>>
    /\ map_idx = [arg |-> <<4, 3>>, ret |-> <<2, 13>>]

\* The original statement of C14: the 12 host-mapped general purpose
\* registers occupy exactly the argument slots 2, 3, 5..13 and the return
\* slots 1..11, 13; argument slot 0 carries the struct pointer; argument slot
\* 1 and the return slots 0 and 12 carry no register value.
C14_SlotsAsStated ==
    /\ \A args \in HhvmCallArgs :
          cconv = "HHVM" =>
              /\ GPSlots(args) = {2, 3} \cup 5..13
              /\ args[1] = SptrRaw
              /\ args[2][1] # "regval"
    /\ \A buf \in RetBuffers :
          /\ GPSlots(buf) = 1..11 \cup {13}
          /\ buf[1][1] # "regval"
          /\ buf[13][1] # "regval"

\* C14, as the code has it: under HOST_REGISTER_ABI the 12 host-mapped
\* general purpose registers occupy exactly the argument slots 2..13 and the
\* return slots 1..11, 13; argument slot 1 carries the struct pointer;
\* argument slot 0 and return slot 0 carry the instruction pointer; return
\* slot 12 carries no register value.
C14_HostSlots ==
    /\ \A args \in HhvmCallArgs :
          cconv = "HHVM" =>
              /\ GPSlots(args) = 2..13
              /\ GPsIn(args) = HostGPs
              /\ args[2] = SptrRaw
              /\ args[1] = RegVal(IP)
    /\ \A buf \in RetBuffers :
          /\ GPSlots(buf) = 1..11 \cup {13}
          /\ GPsIn(buf) = HostGPs
          /\ buf[1] = RegVal(IP)
          /\ buf[13][1] # "regval"

\* Under HHVM a block called an HHVM callee and then returned.
C14_Witness ==
    /\ cconv = "HHVM"
    /\ \E b \in Blocks :
          /\ HhvmCallArgs # {}
          /\ Len(code[b]) = 6
          /\ code[b][2].k = "call" /\ code[b][2].conv = "HHVM"
          /\ code[b][2].args[5] = RegVal(GP(7))
          /\ code[b][6].k = "ret" /\ Len(code[b][6].args) = 14

SinkBuffer(b) == Emitted(b)[2].args
\* The slots of buf that hold the value of register reg.
SlotsOf(buf, reg) == {j \in 1..Len(buf) : buf[j] = RegVal(reg)}

\* C17: Pack under HOST_REGISTER_ABI (HHVM) emits and records no store for a
\* host-mapped entry, hands its value to the host sink exactly once (one
\* registry entry per host register, one slot of a sink that takes all 14
\* values), and leaves its dirty and its cleaned bit as they were; every other
\* entry is stored and recorded, its dirty bit is false and its cleaned bit
\* true.
C17_HhvmPackSplitsEntries ==
    [][\A b \in Blocks : (cconv = "HHVM" /\ PackStep(b)) =>
          LET info == packs'[Len(packs')]
              buf == SinkBuffer(b)
          IN  \A i \in Entries :
                  LET reg == cpu_struct_entries[i].reg
                      slot == cpu_struct_entries[i].sptr_idx
                  IN  IF hhvm_is_host_reg(reg)
                      THEN /\ ~info.stores[slot]
                           /\ {k \in Entries : cpu_struct_entries[k].reg = reg} = {i}
                           /\ Len(buf) = 14 => Cardinality(SlotsOf(buf, reg)) = 1
                           /\ EntryBit(i) \in regfile'[b].dirty <=> EntryBit(i) \in regfile[b].dirty
                           /\ EntryBit(i) \in regfile'[b].cleaned <=> EntryBit(i) \in regfile[b].cleaned
                      ELSE /\ info.stores[slot]
                           /\ EntryBit(i) \notin regfile'[b].dirty
                           /\ EntryBit(i) \in regfile'[b].cleaned]_vars

\* Under HHVM a block wrote the host-mapped GP0 and returned: GP0 is still
\* dirty and not cleaned, its slot has no store and its value is in the return
\* buffer, while the slot of GP12 has a store and GP12 is cleaned.
C17_Witness ==
    /\ cconv = "HHVM"
    /\ \E b \in Blocks :
          /\ Len(code[b]) = 3
          /\ code[b][1] = DefIns(Key(GP(0), "I64"))
          /\ code[b][2] = StoresIns(1)
          /\ code[b][3].k = "ret"
          /\ Cardinality(SlotsOf(code[b][3].args, GP(0))) = 1
          /\ 0 \in regfile[b].dirty
          /\ 0 \notin regfile[b].cleaned
          /\ ~packs[1].stores[1]
          /\ packs[1].stores[13]
          /\ 12 \in regfile[b].cleaned

\* ------------------------------------------------ monotone worklist steps
\* C19: during the worklist iteration the stored pre and the stored post of
\* each block only grow: no iteration removes a bit from either, so a post
\* that changes gains a bit and changes at most as often as there are bits.
C19_StoredSetsOnlyGrow ==
    [][OptVisit =>
          \A b \in Blocks :
              /\ bb_map[b].pre \subseteq bb_map'[b].pre
              /\ bb_map[b].post \subseteq bb_map'[b].post
              /\ bb_map'[b].post # bb_map[b].post =>
                    Cardinality(bb_map'[b].post) > Cardinality(bb_map[b].post)]_vars

\* The iteration is under way on a CFG with a cycle through the entry block:
\* the entry block was visited with an empty pre, visited again, and its stored
\* pre and post have grown by the register that came around the cycle.
C19_Witness ==
    /\ pc = "opt"
    /\ queue # {}
    /\ regfile[EntryBlock].dirty = {}
    /\ bb_map[EntryBlock].pre = {12}
    /\ bb_map[EntryBlock].post = {12}

\* ------------------------------------------------ dirty bits around cycles
\* The blocks C with a path from block b to C, of one edge or more, none of
\* whose intermediate blocks has bit r cleaned.
RECURSIVE FlowsTo(_, _)
FlowsTo(S, r) ==
    LET T == S \cup UNION {succs[x] : x \in {y \in S : r \notin regfile[y].cleaned}}
    IN  IF T = S THEN S ELSE FlowsTo(T, r)
DirtyTargets(b, r) == FlowsTo(succs[b], r)

\* C16: dirty bits propagate along every path, around cycles too: when the
\* worklist loop has ended, for a block B reachable from the entry whose final
\* dirty set holds R and a block C with a path from B to C none of whose
\* intermediate blocks has R cleaned, the stored pre(C) holds R. In a loop
\* header -> body -> header with header -> exit, a register dirtied in the
\* body is in pre(header) and in pre(exit).
C16_DirtyBitsFlowAroundCycles ==
    pc \in {"erase", "done"} =>
        \A B \in Reachable :
            \A R \in regfile[B].dirty :
                \A C \in DirtyTargets(B, R) : R \in bb_map[C].pre

\* The loop has ended on the loop of header 1 and body 2 with exit 3; the
\* body left GP12 dirty, the header did not write it, and the stored pre of
\* the header and of the exit hold GP12.
C16_Witness ==
    /\ pc = "erase"
    /\ succs = [b \in Blocks |-> IF b = 1 THEN {2, 3} ELSE IF b = 2 THEN {1} ELSE {}]
    /\ regfile[1].dirty = {}
    /\ regfile[2].dirty = {12}
    /\ 12 \in bb_map[1].pre
    /\ 12 \in bb_map[3].pre
    /\ 1 \in DirtyTargets(2, 12)
    /\ 3 \in DirtyTargets(2, 12)

\* ------------------------------------------- straight-line store elimination
\* The place of the stores of pack p on the single path of ChainCFG, and the
\* path from the entry block to the block of the pack.
PackPos(p) == <<packs[p].bb, PackPlace(p)>>
ChainPath(p) == [n \in 1..packs[p].bb |-> n]
\* Pack p is the Pack of a call after which the path goes on.
IsCallPack(p) ==
    LET c == code[packs[p].bb][PackPlace(p) + 1]
    IN  c.k = "call" /\ ~c.tail
\* p and q are two consecutive pack points of the path, p before q.
Consecutive(p, q) ==
    /\ IsCallPack(p)
    /\ Later(PackPos(p), PackPos(q))
    /\ \A r \in 1..Len(packs) : ~(Later(PackPos(p), PackPos(r)) /\ Later(PackPos(r), PackPos(q)))
\* The register of entry i is written between the pack points p and q.
Redirtied(p, q, i) ==
    \E b \in Blocks : \E k \in 1..Len(code[b]) :
        /\ EntryBit(i) \in Writes(code[b][k])
        /\ Later(PackPos(p), <<b, k>>)
        /\ Later(<<b, k>>, PackPos(q))
\* The two consecutive pack points and the register of the claim: the first
\* pack stores R1, and R1 is written again before the second.
StraightCases ==
    {c \in (1..Len(packs)) \X (1..Len(packs)) \X Written :
        /\ Consecutive(c[1], c[2])
        /\ c[3] \in Stored(c[1])
        /\ Redirtied(c[1], c[2], c[3])}

\* C15 as stated: in a single-path function with two consecutive pack points
\* where R1 is stored at the first and written again before the second, with
\* no read of the CPU struct and no call or return in between, OptimizePacks
\* deletes the first pack's store of R1 and keeps the second's.
C15_FirstStoreDeleted ==
    pc = "done" =>
        \A c \in StraightCases :
            /\ <<c[1], cpu_struct_entries[c[3]].sptr_idx>> \in erased
            /\ <<c[2], cpu_struct_entries[c[3]].sptr_idx>> \notin erased

\* C15, amended: in that function OptimizePacks keeps the second pack's store
\* of R1, and deletes the first pack's store of R1 if and only if R1 was not
\* written since it was last loaded from or stored to its slot when control
\* reaches the first pack point; the write after the first pack point plays
\* no part.
C15_FirstStoreDeletedIffClean ==
    pc = "done" =>
        \A c \in StraightCases :
            /\ <<c[1], cpu_struct_entries[c[3]].sptr_idx>> \in erased
                  <=> ~OutOfSync(ChainPath(c[1]), c[1], c[3], FALSE)
            /\ <<c[2], cpu_struct_entries[c[3]].sptr_idx>> \notin erased

\* The entry block calls, writes R1 and returns; R1 was clean at the call, the
\* store of R1 at the call is erased and that at the return is kept, as is
\* neither store of R2, which was never written.
C15_Witness ==
    /\ pc = "done"
    /\ Len(packs) = 2
    /\ packs[1].bb = EntryBlock
    /\ packs[2].bb = EntryBlock
    /\ <<1, 2, 14>> \in StraightCases
    /\ ~OutOfSync(ChainPath(1), 1, 14, FALSE)
    /\ <<1, 13>> \in erased
    /\ <<2, 13>> \notin erased
    /\ <<2, 14>> \in erased

====
